---- MODULE Spec2Model ----
(***************************************************************************)
(* A model of libmysqlclient_cpp_wrapper.h: the three reference-counted    *)
(* handle wrappers (MySQLClientLibrary, MySQLConnection,                   *)
(* MySQLPreparedStatement), their construction and destruction chains, and *)
(* the forwarding operations of a connection and of a prepared statement.  *)
(*                                                                         *)
(* The native client library is outside the repository: every native call  *)
(* is an input of the action that makes it (its return value and the error *)
(* text it leaves behind are chosen with \E), and the state of every       *)
(* native handle is recorded beside the object that owns it.               *)
(***************************************************************************)
EXTENDS Integers, Sequences, FiniteSets

\* ---------------------------------------------------------------- bounds
MaxLibs == 2      \* MySQLClientLibrary objects ever constructed
MaxConns == 1     \* MySQLConnection objects ever constructed
MaxStmts == 1     \* MySQLPreparedStatement objects ever constructed
MaxRefs == 2      \* shared_ptr copies the callers hold on one object
MaxThreads == 2   \* threads calling createOrGet concurrently
MaxDesc == 1      \* descriptors per sequence in the forwarding specification
MaxBind == 2      \* descriptors per sequence in the typed-helper specification
MaxFetch == 2     \* rows one caller loop fetches

LibIds == 1..MaxLibs
ConnIds == 1..MaxConns
StmtIds == 1..MaxStmts
Threads == 1..MaxThreads

VARIABLES
  m_instance,   \* MySQLClientLibrary::m_instance: the object the weak_ptr names, 0 if none
  lib,          \* lib[l]: a MySQLClientLibrary object and the callers' references to it
  conn,         \* conn[c]: a MySQLConnection object and the callers' references to it
  stmt,         \* stmt[s]: a MySQLPreparedStatement object and the callers' references
  created,      \* what the last createOrGet / create call did
  pc,           \* pc[t]: where thread t is inside createOrGet
  instance,     \* instance[t]: the local variable `instance` of thread t in createOrGet
  m_errorCode,  \* MySQLPreparedStatement::m_errorCode
  m_parameters, \* MySQLPreparedStatement::m_parameters
  m_results,    \* MySQLPreparedStatement::m_results
  outcome,      \* what the last forwarding operation did
  history       \* what the caller has observed of the statement so far

lifeVars == <<m_instance, lib, conn, stmt, created>>
threadVars == <<pc, instance>>
stmtVars == <<m_errorCode, m_parameters, m_results, outcome, history>>
vars == <<m_instance, lib, conn, stmt, created, pc, instance,
          m_errorCode, m_parameters, m_results, outcome, history>>

\* ------------------------------------------------------- the object heap
\* The heap the destructor chains work on: the three object tables.  Beside the
\* members of the C++ object (m_errorCode, m_library, m_mysql, m_conn, m_stmt)
\* and the callers' reference count (user), each entry records the native side
\* of its handle: native ("none", "open", "closed", or "orphaned" when the
\* handle it depends on was released while this one was still open), the
\* number of native release calls made for it (released), and the object it
\* was created on (on).
Heap == [lib |-> lib, conn |-> conn, stmt |-> stmt]

NoLib == [obj |-> "unborn", m_errorCode |-> 0, user |-> 0,
          native |-> "none", released |-> 0]
NoConn == [obj |-> "unborn", m_library |-> 0, m_mysql |-> 0, user |-> 0,
           native |-> "none", released |-> 0, on |-> 0]
NoStmt == [obj |-> "unborn", m_conn |-> 0, m_stmt |-> 0, user |-> 0,
           native |-> "none", released |-> 0, on |-> 0]

\* The next object `new` constructs: ids are handed out in order.
Fresh(table) == CHOOSE i \in DOMAIN table :
                  /\ table[i].obj = "unborn"
                  /\ \A j \in DOMAIN table : j < i => table[j].obj # "unborn"
HasFresh(table) == \E i \in DOMAIN table : table[i].obj = "unborn"

\* use_count of a library object: the callers' copies (locals of createOrGet
\* included) and the m_library member of every connection that holds it.
LibStrong(H, l) == H.lib[l].user + Cardinality({c \in ConnIds : H.conn[c].m_library = l})
\* use_count of a connection object: the callers' copies and every statement's m_conn.
ConnStrong(H, c) == H.conn[c].user + Cardinality({s \in StmtIds : H.stmt[s].m_conn = c})
\* use_count of a statement object: only callers hold statements.
StmtStrong(H, s) == H.stmt[s].user

\* The native release calls, as seen at the boundary of the wrapper.
\* mysql_library_end(): every connection still open loses its library.
mysql_library_end(H, l) ==
  [H EXCEPT !.lib[l].native = "closed",
            !.lib[l].released = @ + 1,
            !.conn = [c \in ConnIds |->
                        IF H.conn[c].native = "open"
                        THEN [H.conn[c] EXCEPT !.native = "orphaned"]
                        ELSE H.conn[c]]]

\* mysql_close(m_mysql): every statement of the connection still open loses it.
mysql_close(H, c) ==
  [H EXCEPT !.conn[c].native = "closed",
            !.conn[c].released = @ + 1,
            !.stmt = [s \in StmtIds |->
                        IF H.stmt[s].native = "open" /\ H.stmt[s].on = c
                        THEN [H.stmt[s] EXCEPT !.native = "orphaned"]
                        ELSE H.stmt[s]]]

\* mysql_stmt_close(m_stmt)
mysql_stmt_close(H, s) ==
  [H EXCEPT !.stmt[s].native = "closed", !.stmt[s].released = @ + 1]

\* ~MySQLClientLibrary
DtorLibrary(H, l) ==
  LET body == IF H.lib[l].m_errorCode = 0 THEN mysql_library_end(H, l) ELSE H
  IN [body EXCEPT !.lib[l].obj = "destroyed"]

\* A shared_ptr<MySQLClientLibrary> that named l (0: an empty one) is gone.
ReleaseLibrary(H, l) ==
  IF l # 0 /\ H.lib[l].obj = "live" /\ LibStrong(H, l) = 0 THEN DtorLibrary(H, l) ELSE H

\* Mutant of ~MySQLConnection: the destructor forgets mysql_close.
DtorConnection_NoClose(H, c) ==
  LET members == [H EXCEPT !.conn[c].obj = "destroyed", !.conn[c].m_library = 0]
  IN ReleaseLibrary(members, H.conn[c].m_library)

\* ~MySQLConnection: the body, then the members (m_library) are destroyed.
DtorConnection(H, c) ==
  LET body == IF H.conn[c].m_mysql # 0 THEN mysql_close(H, c) ELSE H
      members == [body EXCEPT !.conn[c].obj = "destroyed", !.conn[c].m_library = 0]
  IN ReleaseLibrary(members, H.conn[c].m_library)

\* A shared_ptr<MySQLConnection> that named c is gone.
ReleaseConnection(H, c) ==
  IF c # 0 /\ H.conn[c].obj = "live" /\ ConnStrong(H, c) = 0 THEN DtorConnection(H, c) ELSE H

\* ~MySQLPreparedStatement: the body, then the members (m_conn) are destroyed.
DtorStatement(H, s) ==
  LET body == IF H.stmt[s].m_stmt # 0 THEN mysql_stmt_close(H, s) ELSE H
      members == [body EXCEPT !.stmt[s].obj = "destroyed", !.stmt[s].m_conn = 0]
  IN ReleaseConnection(members, H.stmt[s].m_conn)

\* A shared_ptr<MySQLPreparedStatement> that named s is gone.
ReleaseStatement(H, s) ==
  IF s # 0 /\ H.stmt[s].obj = "live" /\ StmtStrong(H, s) = 0 THEN DtorStatement(H, s) ELSE H

\* weak_ptr::lock on m_instance = w: the object, if it still has an owner.
Lock(H, w) == IF w # 0 /\ H.lib[w].obj = "live" /\ LibStrong(H, w) > 0 THEN w ELSE 0

\* MySQLClientLibrary::MySQLClientLibrary: initRet is what mysql_library_init returns.
\* A constructor that throws leaves no object behind and runs no destructor.
CtorLibrary(H, l, initRet) ==
  IF initRet # 0
  THEN H
  ELSE [H EXCEPT !.lib[l] = [obj |-> "live", m_errorCode |-> initRet, user |-> 0,
                             native |-> "open", released |-> 0]]

\* Mutant of createOrGet: the new instance is never stored in m_instance.
createOrGet_NoPublish(H, w, initRet) ==
  LET found == Lock(H, w) IN
  IF found # 0
  THEN [H |-> [H EXCEPT !.lib[found].user = @ + 1], m_instance |-> w,
        ret |-> found, inits |-> 0]
  ELSE LET l == Fresh(H.lib)
           H1 == CtorLibrary(H, l, initRet)
       IN IF initRet # 0
          THEN [H |-> H1, m_instance |-> w, ret |-> 0, inits |-> 1]
          ELSE [H |-> [H1 EXCEPT !.lib[l].user = 1], m_instance |-> w,
                ret |-> l, inits |-> 1]

\* MySQLClientLibrary::createOrGet run by one thread from start to end.
\* The result: the heap, m_instance, ret (the instance returned, 0: it threw) and
\* inits (the number of mysql_library_init calls made).
createOrGet(H, w, initRet) ==
  LET found == Lock(H, w) IN
  IF found # 0
  THEN [H |-> [H EXCEPT !.lib[found].user = @ + 1], m_instance |-> w,
        ret |-> found, inits |-> 0]
  ELSE LET l == Fresh(H.lib)
           H1 == CtorLibrary(H, l, initRet)
       IN IF initRet # 0
          THEN [H |-> H1, m_instance |-> w, ret |-> 0, inits |-> 1]
          ELSE [H |-> [H1 EXCEPT !.lib[l].user = 1], m_instance |-> l,
                ret |-> l, inits |-> 1]

\* Mutant of MySQLConnection::create: when mysql_init fails, the reference
\* taken on the library is not given back.
CreateConnection_Leak(H, c, l, handle) ==
  LET H1 == [H EXCEPT !.conn[c].m_library = l] IN
  IF handle # 0
  THEN [H1 EXCEPT !.conn[c] = [obj |-> "live", m_library |-> l, m_mysql |-> handle,
                               user |-> 1, native |-> "open", released |-> 0,
                               on |-> l]]
  ELSE H1

\* MySQLConnection::MySQLConnection behind MySQLConnection::create: m_library is
\* copied from the argument, then mysql_init returns handle (0: null). When the
\* constructor throws, the members constructed so far (m_library) are destroyed
\* and no object is left behind.
CreateConnection(H, c, l, handle) ==
  LET H1 == [H EXCEPT !.conn[c].m_library = l] IN
  IF handle # 0
  THEN [H1 EXCEPT !.conn[c] = [obj |-> "live", m_library |-> l, m_mysql |-> handle,
                               user |-> 1, native |-> "open", released |-> 0,
                               on |-> l]]
  ELSE ReleaseLibrary([H1 EXCEPT !.conn[c].m_library = 0], l)

\* Mutant of MySQLPreparedStatement::create: the statement keeps no reference
\* to its connection.
CreateStatement_NoHold(H, s, c, handle) ==
  IF handle # 0
  THEN [H EXCEPT !.stmt[s] = [obj |-> "live", m_conn |-> 0, m_stmt |-> handle,
                              user |-> 1, native |-> "open", released |-> 0,
                              on |-> c]]
  ELSE H

\* MySQLPreparedStatement::MySQLPreparedStatement behind MySQLPreparedStatement::create.
CreateStatement(H, s, c, handle) ==
  LET H1 == [H EXCEPT !.stmt[s].m_conn = c] IN
  IF handle # 0
  THEN [H1 EXCEPT !.stmt[s] = [obj |-> "live", m_conn |-> c, m_stmt |-> handle,
                               user |-> 1, native |-> "open", released |-> 0,
                               on |-> c]]
  ELSE ReleaseConnection([H1 EXCEPT !.stmt[s].m_conn = 0], c)

SetHeap(H) ==
  /\ lib' = H.lib
  /\ conn' = H.conn
  /\ stmt' = H.stmt

\* The library objects that are initialized and not yet deinitialized.
LiveLibs == {l \in LibIds : lib[l].obj = "live"}

NoCreated == [op |-> "none", ret |-> 0, wasLive |-> {}, inits |-> 0, dep |-> 0,
              kept |-> TRUE]

\* --------------------------------------------- lifecycle actions (one thread)
\* createOrGet(argc, argv, groups); initRet is the native initializer's answer.
CreateOrGet(initRet) ==
  /\ \A t \in Threads : pc[t] = "idle"
  /\ Lock(Heap, m_instance) # 0 \/ HasFresh(lib)
  /\ Lock(Heap, m_instance) # 0 => lib[m_instance].user < MaxRefs
  /\ LET r == createOrGet(Heap, m_instance, initRet) IN
       /\ SetHeap(r.H)
       /\ m_instance' = r.m_instance
       /\ created' = [op |-> "createOrGet", ret |-> r.ret, wasLive |-> LiveLibs,
                      inits |-> r.inits, dep |-> 0,
                      kept |-> r.H = Heap /\ r.m_instance = m_instance]
  /\ UNCHANGED <<threadVars, stmtVars>>

\* MySQLConnection::create(library): the caller passes a reference it holds
\* (l = 0: an empty shared_ptr); handle is what mysql_init returns.
ConnectionCreate(l, handle) ==
  /\ \A t \in Threads : pc[t] = "idle"
  /\ l # 0 => lib[l].obj = "live" /\ lib[l].user > 0
  /\ HasFresh(conn)
  /\ LET c == Fresh(conn) IN
       /\ SetHeap(CreateConnection(Heap, c, l, handle))
       /\ created' = [op |-> "MySQLConnection::create", ret |-> IF handle # 0 THEN c ELSE 0,
                      wasLive |-> LiveLibs, inits |-> 0, dep |-> l,
                      kept |-> CreateConnection(Heap, c, l, handle) = Heap]
  /\ UNCHANGED <<m_instance, threadVars, stmtVars>>

\* MySQLPreparedStatement::create(conn): conn is a reference the caller holds
\* (the constructor dereferences it); handle is what mysql_stmt_init returns.
StatementCreate(c, handle) ==
  /\ \A t \in Threads : pc[t] = "idle"
  /\ conn[c].obj = "live" /\ conn[c].user > 0
  /\ HasFresh(stmt)
  /\ LET s == Fresh(stmt) IN
       /\ SetHeap(CreateStatement(Heap, s, c, handle))
       /\ created' = [op |-> "MySQLPreparedStatement::create",
                      ret |-> IF handle # 0 THEN s ELSE 0,
                      wasLive |-> LiveLibs, inits |-> 0, dep |-> c,
                      kept |-> CreateStatement(Heap, s, c, handle) = Heap]
  /\ UNCHANGED <<m_instance, threadVars, stmtVars>>

\* The caller copies a shared_ptr it holds.
CopyLibraryRef(l) ==
  /\ lib[l].obj = "live" /\ lib[l].user > 0 /\ lib[l].user < MaxRefs
  /\ lib' = [lib EXCEPT ![l].user = @ + 1]
  /\ created' = NoCreated
  /\ UNCHANGED <<m_instance, conn, stmt, threadVars, stmtVars>>

CopyConnectionRef(c) ==
  /\ conn[c].obj = "live" /\ conn[c].user > 0 /\ conn[c].user < MaxRefs
  /\ conn' = [conn EXCEPT ![c].user = @ + 1]
  /\ created' = NoCreated
  /\ UNCHANGED <<m_instance, lib, stmt, threadVars, stmtVars>>

CopyStatementRef(s) ==
  /\ stmt[s].obj = "live" /\ stmt[s].user > 0 /\ stmt[s].user < MaxRefs
  /\ stmt' = [stmt EXCEPT ![s].user = @ + 1]
  /\ created' = NoCreated
  /\ UNCHANGED <<m_instance, lib, conn, threadVars, stmtVars>>

\* The caller drops a shared_ptr it holds; the last owner runs the destructor.
DropLibraryRef(l) ==
  /\ lib[l].obj = "live"
  /\ lib[l].user > Cardinality({t \in Threads : instance[t] = l})
  /\ SetHeap(ReleaseLibrary([Heap EXCEPT !.lib[l].user = @ - 1], l))
  /\ created' = NoCreated
  /\ UNCHANGED <<m_instance, threadVars, stmtVars>>

DropConnectionRef(c) ==
  /\ conn[c].obj = "live" /\ conn[c].user > 0
  /\ SetHeap(ReleaseConnection([Heap EXCEPT !.conn[c].user = @ - 1], c))
  /\ created' = NoCreated
  /\ UNCHANGED <<m_instance, threadVars, stmtVars>>

DropStatementRef(s) ==
  /\ stmt[s].obj = "live" /\ stmt[s].user > 0
  /\ SetHeap(ReleaseStatement([Heap EXCEPT !.stmt[s].user = @ - 1], s))
  /\ created' = NoCreated
  /\ UNCHANGED <<m_instance, threadVars, stmtVars>>

\* ------------------------------- createOrGet, statement by statement (threads)
\* createOrGet takes no lock: the threads' reads and writes of m_instance
\* interleave.  (Unsynchronized access to the weak_ptr is a data race; each
\* access is taken here as one indivisible step, the mildest outcome.)

\* auto instance = m_instance.lock();
LockStep(t) ==
  /\ pc[t] = "idle"
  /\ LET found == Lock(Heap, m_instance) IN
       /\ found # 0 => lib[found].user < MaxRefs
       /\ instance' = [instance EXCEPT ![t] = found]
       /\ lib' = IF found # 0 THEN [lib EXCEPT ![found].user = @ + 1] ELSE lib
  /\ pc' = [pc EXCEPT ![t] = "checked"]
  /\ created' = NoCreated
  /\ UNCHANGED <<m_instance, conn, stmt, stmtVars>>

\* if (!instance) instance = shared_ptr(new MySQLClientLibrary(argc, argv, groups));
ConstructStep(t, initRet) ==
  /\ pc[t] = "checked" /\ instance[t] = 0
  /\ HasFresh(lib)
  /\ LET l == Fresh(lib)
         H1 == CtorLibrary(Heap, l, initRet)
     IN IF initRet # 0
        THEN /\ SetHeap(H1)
             /\ pc' = [pc EXCEPT ![t] = "idle"]
             /\ UNCHANGED instance
             /\ created' = [op |-> "createOrGet", ret |-> 0, wasLive |-> LiveLibs,
                            inits |-> 1, dep |-> 0, kept |-> H1 = Heap]
        ELSE /\ SetHeap([H1 EXCEPT !.lib[l].user = 1])
             /\ pc' = [pc EXCEPT ![t] = "constructed"]
             /\ instance' = [instance EXCEPT ![t] = l]
             /\ created' = NoCreated
  /\ UNCHANGED <<m_instance, stmtVars>>

\* m_instance = instance;
PublishStep(t) ==
  /\ pc[t] = "constructed"
  /\ m_instance' = instance[t]
  /\ pc' = [pc EXCEPT ![t] = "published"]
  /\ created' = NoCreated
  /\ UNCHANGED <<lib, conn, stmt, instance, stmtVars>>

\* return instance;  (the local's reference passes to the caller)
ReturnStep(t) ==
  /\ \/ pc[t] = "checked" /\ instance[t] # 0
     \/ pc[t] = "published"
  /\ pc' = [pc EXCEPT ![t] = "idle"]
  /\ instance' = [instance EXCEPT ![t] = 0]
  /\ created' = [op |-> "createOrGet", ret |-> instance[t], wasLive |-> LiveLibs,
                 inits |-> IF pc[t] = "published" THEN 1 ELSE 0, dep |-> 0,
                 kept |-> FALSE]
  /\ UNCHANGED <<m_instance, lib, conn, stmt, stmtVars>>

\* ------------------------------------------------ the forwarding operations
\* Native answers: a status and the error text the native library then reports
\* (mysql_stmt_error / mysql_error); no text after a success.
ErrTexts == {"native error A", "native error B"}
IntAnswers == {<<0, "">>} \cup ({1, 2} \X ErrTexts)
BoolAnswers == {<<0, "">>} \cup ({1} \X ErrTexts)
\* mysql_real_connect answers the connection handle, or null (0) with an error text.
ConnectAnswers == {<<1, "">>} \cup ({0} \X ErrTexts)
MYSQL_NO_DATA == 100
MYSQL_DATA_TRUNCATED == 101
FetchAnswers == {<<0, "">>, <<MYSQL_NO_DATA, "">>} \cup
                ({1, MYSQL_DATA_TRUNCATED} \X ErrTexts)

Ok(code) == [m_errorCode |-> code, result |-> "ok", msg |-> <<>>, calls |-> 1]
Throw(code, kind, msg, calls) ==
  [m_errorCode |-> code, result |-> kind, msg |-> msg, calls |-> calls]

\* MySQLConnection::connect
connect(handle) ==
  IF handle = 0
  THEN [result |-> "runtime_error", msg |-> <<"could not connect to database server">>,
        calls |-> 1]
  ELSE [result |-> "ok", msg |-> <<>>, calls |-> 1]

\* MySQLConnection::setAutoCommit
setAutoCommit(autoCommit, ret) ==
  IF ret # 0
  THEN [result |-> "runtime_error",
        msg |-> <<"could not set autocommit mode to ", IF autoCommit THEN "on" ELSE "off">>,
        calls |-> 1]
  ELSE [result |-> "ok", msg |-> <<>>, calls |-> 1]

\* MySQLPreparedStatement::prepare: ret is what mysql_stmt_prepare returns, text
\* what mysql_stmt_error then returns.
prepare(code, ret, text) ==
  IF ret # 0
  THEN Throw(ret, "runtime_error", <<"failed to prepare prepared statement: ", text>>, 1)
  ELSE Ok(ret)

\* MySQLPreparedStatement::bindParameters
bindParameters(params, code, ret, text) ==
  IF params = <<>>
  THEN Throw(code, "logic_error", <<"there are no parameters">>, 0)
  ELSE IF ret # 0
       THEN Throw(ret, "runtime_error",
                  <<"failed to bind parameters prepared statement: ", text>>, 1)
       ELSE Ok(ret)

\* MySQLPreparedStatement::bindResults
bindResults(results, code, ret, text) ==
  IF results = <<>>
  THEN Throw(code, "logic_error", <<"there are no results">>, 0)
  ELSE IF ret # 0
       THEN Throw(ret, "runtime_error",
                  <<"failed to bind results prepared statement: ", text>>, 1)
       ELSE Ok(ret)

\* Mutant of execute: m_errorCode is set only when the native call fails.
execute_KeepOnSuccess(code, ret, text) ==
  IF ret # 0
  THEN Throw(ret, "runtime_error", <<"failed to execute prepared statement: ", text>>, 1)
  ELSE Ok(code)

\* MySQLPreparedStatement::execute
execute(code, ret, text) ==
  IF ret # 0
  THEN Throw(ret, "runtime_error", <<"failed to execute prepared statement: ", text>>, 1)
  ELSE Ok(ret)

\* Mutant of fetch: a truncated row counts as a fetched row.
fetch_TruncatedOk(code, res) ==
  CASE res = 0 \/ res = MYSQL_DATA_TRUNCATED ->
         [m_errorCode |-> code, result |-> "true", msg |-> <<>>, calls |-> 1]
    [] res = MYSQL_NO_DATA ->
         [m_errorCode |-> code, result |-> "false", msg |-> <<>>, calls |-> 1]
    [] OTHER -> Throw(code, "runtime_error", <<"failed to fetch data">>, 1)

\* Mutant of fetch: `return res != MYSQL_NO_DATA`, an error is taken for a row.
fetch_NoThrow(code, res) ==
  [m_errorCode |-> code, result |-> IF res # MYSQL_NO_DATA THEN "true" ELSE "false",
   msg |-> <<>>, calls |-> 1]

\* MySQLPreparedStatement::fetch: res is what mysql_stmt_fetch returns.
fetch(code, res) ==
  CASE res = 0 -> [m_errorCode |-> code, result |-> "true", msg |-> <<>>, calls |-> 1]
    [] res = MYSQL_NO_DATA ->
         [m_errorCode |-> code, result |-> "false", msg |-> <<>>, calls |-> 1]
    [] OTHER -> Throw(code, "runtime_error", <<"failed to fetch data">>, 1)

\* MySQLPreparedStatement::stop
stop(code, ret) ==
  IF ret # 0
  THEN Throw(code, "runtime_error", <<"failed to stop prepared statement">>, 1)
  ELSE Ok(code)

\* ----------------------------------------------------- the typed helpers
CTypes == {"char", "short", "int", "long long", "float", "double", "char*", "void*"}
Sized == {"char*", "void*"}
Addrs == {10, 20}      \* addresses of the caller's buffers
Sizes == {3, 5}        \* sizes the caller passes with a char* or void* buffer

\* sizeof(value) of the fixed-width overloads
SizeOf(t) ==
  CASE t = "char" -> 1
    [] t = "short" -> 2
    [] t = "int" -> 4
    [] t = "long long" -> 8
    [] t = "float" -> 4
    [] t = "double" -> 8

\* The buffer type each addParameter overload passes on.
ParameterTag(t) ==
  CASE t = "void*" -> "MYSQL_TYPE_BLOB"
    [] t = "char" -> "MYSQL_TYPE_TINY"
    [] t = "short" -> "MYSQL_TYPE_SHORT"
    [] t = "int" -> "MYSQL_TYPE_LONG"
    [] t = "long long" -> "MYSQL_TYPE_LONGLONG"
    [] t = "float" -> "MYSQL_TYPE_FLOAT"
    [] t = "double" -> "MYSQL_TYPE_FLOAT"
    [] t = "char*" -> "MYSQL_TYPE_STRING"

\* The buffer type each addResult overload passes on.
ResultTag(t) ==
  CASE t = "void*" -> "MYSQL_TYPE_BLOB"
    [] t = "char" -> "MYSQL_TYPE_TINY"
    [] t = "short" -> "MYSQL_TYPE_SHORT"
    [] t = "int" -> "MYSQL_TYPE_LONG"
    [] t = "long long" -> "MYSQL_TYPE_LONGLONG"
    [] t = "float" -> "MYSQL_TYPE_FLOAT"
    [] t = "double" -> "MYSQL_TYPE_DOUBLE"
    [] t = "char*" -> "MYSQL_TYPE_STRING"

\* The length a typed overload passes on: sizeof(value), or the caller's size.
PassedLength(t, size) == IF t \in Sized THEN size ELSE SizeOf(t)

\* addParameter(bufferType, buffer, bufferLength): the descriptor is zeroed,
\* filled in and pushed back.
addParameter(params, bufferType, buffer, bufferLength) ==
  Append(params, [buffer_type |-> bufferType, buffer |-> buffer,
                  buffer_length |-> bufferLength])

\* addResult(bufferType, buffer, bufferLength)
addResult(results, bufferType, buffer, bufferLength) ==
  Append(results, [buffer_type |-> bufferType, buffer |-> buffer,
                   buffer_length |-> bufferLength])

\* setParameterLength(index, length): vector::at throws past the end.
setParameterLength(params, index, length) ==
  IF index >= Len(params)
  THEN [m_parameters |-> params, result |-> "out_of_range"]
  ELSE [m_parameters |-> [params EXCEPT ![index + 1].buffer_length = length],
        result |-> "ok"]

\* ------------------------------------------- actions on the one statement
NoArg == [t |-> "", buffer |-> 0, size |-> 0, n |-> 0]
Threw(result) == result \in {"runtime_error", "logic_error", "out_of_range"}

\* The record of a forwarding operation that made (or refused) its native call.
Record(op, r, ret, failed, text) ==
  outcome' = [op |-> op, result |-> r.result, ret |-> ret, failed |-> failed,
              calls |-> r.calls, msg |-> r.msg, text |-> text,
              inLoop |-> FALSE, arg |-> NoArg]

\* A statement operation: its record, and what it leaves in m_errorCode.
Done(op, r, ret, failed, text) ==
  /\ m_errorCode' = r.m_errorCode
  /\ Record(op, r, ret, failed, text)

\* The statement and its connection are alive: the caller holds them.
Usable == stmt[1].obj = "live" /\ conn[1].obj = "live"

Connect(ans) ==
  /\ Usable
  /\ Record("connect", connect(ans[1]), ans[1], ans[1] = 0, ans[2])
  /\ history' = [history EXCEPT !.failure = @ \/ Threw(connect(ans[1]).result)]
  /\ UNCHANGED <<lifeVars, threadVars, m_errorCode, m_parameters, m_results>>

SetAutoCommit(autoCommit, ans) ==
  /\ Usable
  /\ Record("setAutoCommit", setAutoCommit(autoCommit, ans[1]), ans[1], ans[1] # 0, ans[2])
  /\ history' = [history EXCEPT
                   !.failure = @ \/ Threw(setAutoCommit(autoCommit, ans[1]).result)]
  /\ UNCHANGED <<lifeVars, threadVars, m_errorCode, m_parameters, m_results>>

Prepare(ans) ==
  /\ Usable
  /\ LET r == prepare(m_errorCode, ans[1], ans[2]) IN
       /\ Done("prepare", r, ans[1], ans[1] # 0, ans[2])
       /\ history' = [history EXCEPT !.lastNative = ans[1],
                                     !.failure = @ \/ Threw(r.result)]
  /\ UNCHANGED <<lifeVars, threadVars, m_parameters, m_results>>

BindParameters(ans) ==
  /\ Usable
  /\ LET r == bindParameters(m_parameters, m_errorCode, ans[1], ans[2])
         made == m_parameters # <<>>
     IN
       /\ Done("bindParameters", r, ans[1], made /\ ans[1] # 0, ans[2])
       /\ history' = [history EXCEPT
                        !.lastNative = IF made THEN ans[1] ELSE @,
                        !.bound = @ \/ (made /\ ans[1] = 0 /\ r.result = "ok"),
                        !.failure = @ \/ Threw(r.result)]
  /\ UNCHANGED <<lifeVars, threadVars, m_parameters, m_results>>

BindResults(ans) ==
  /\ Usable
  /\ LET r == bindResults(m_results, m_errorCode, ans[1], ans[2])
         made == m_results # <<>>
     IN
       /\ Done("bindResults", r, ans[1], made /\ ans[1] # 0, ans[2])
       /\ history' = [history EXCEPT
                        !.lastNative = IF made THEN ans[1] ELSE @,
                        !.failure = @ \/ Threw(r.result)]
  /\ UNCHANGED <<lifeVars, threadVars, m_parameters, m_results>>

Execute(ans) ==
  /\ Usable
  /\ LET r == execute(m_errorCode, ans[1], ans[2]) IN
       /\ Done("execute", r, ans[1], ans[1] # 0, ans[2])
       /\ history' = [history EXCEPT !.lastNative = ans[1],
                                     !.failure = @ \/ Threw(r.result)]
  /\ UNCHANGED <<lifeVars, threadVars, m_parameters, m_results>>

\* The caller starts a loop `while (stmt->fetch()) { ... }`.
StartFetchLoop ==
  /\ Usable
  /\ history.loop # "running"
  /\ history' = [history EXCEPT !.loop = "running", !.rows = 0]
  /\ outcome' = [op |-> "none", result |-> "none", ret |-> 0, failed |-> FALSE,
                 calls |-> 0, msg |-> <<>>, text |-> "", inLoop |-> FALSE,
                 arg |-> NoArg]
  /\ UNCHANGED <<lifeVars, threadVars, m_errorCode, m_parameters, m_results>>

\* One call of fetch: the loop condition while the caller's loop runs, a single
\* call otherwise.  The loop goes on exactly while fetch returns true.
Fetch(ans) ==
  /\ Usable
  /\ ans[1] = 0 /\ history.loop = "running" => history.rows < MaxFetch
  /\ LET r == fetch(m_errorCode, ans[1])
         looping == history.loop = "running"
     IN
       /\ m_errorCode' = r.m_errorCode
       /\ outcome' = [op |-> "fetch", result |-> r.result, ret |-> ans[1],
                      failed |-> ans[1] \notin {0, MYSQL_NO_DATA}, calls |-> r.calls,
                      msg |-> r.msg, text |-> ans[2], inLoop |-> looping,
                      arg |-> NoArg]
       /\ history' = [history EXCEPT
                        !.loop = IF looping /\ r.result # "true" THEN "ended" ELSE @,
                        !.rows = IF looping /\ r.result = "true" THEN @ + 1 ELSE @,
                        !.failure = @ \/ Threw(r.result)]
  /\ UNCHANGED <<lifeVars, threadVars, m_parameters, m_results>>

Stop(ans) ==
  /\ Usable
  /\ LET r == stop(m_errorCode, ans[1]) IN
       /\ Done("stop", r, ans[1], ans[1] # 0, ans[2])
       /\ history' = [history EXCEPT !.failure = @ \/ Threw(r.result)]
  /\ UNCHANGED <<lifeVars, threadVars, m_parameters, m_results>>

\* A typed addParameter overload, called with a buffer of C type t at address
\* buffer (and, for char* and void*, the size the caller passes).
AddParameter(t, buffer, size) ==
  /\ Usable
  /\ m_parameters' = addParameter(m_parameters, ParameterTag(t), buffer,
                                  PassedLength(t, size))
  /\ outcome' = [op |-> "addParameter", result |-> "ok", ret |-> 0, failed |-> FALSE,
                 calls |-> 0, msg |-> <<>>, text |-> "", inLoop |-> FALSE,
                 arg |-> [t |-> t, buffer |-> buffer, size |-> size,
                          n |-> Len(m_parameters)]]
  /\ UNCHANGED <<lifeVars, threadVars, m_errorCode, m_results, history>>

\* A typed addResult overload.
AddResult(t, buffer, size) ==
  /\ Usable
  /\ m_results' = addResult(m_results, ResultTag(t), buffer, PassedLength(t, size))
  /\ outcome' = [op |-> "addResult", result |-> "ok", ret |-> 0, failed |-> FALSE,
                 calls |-> 0, msg |-> <<>>, text |-> "", inLoop |-> FALSE,
                 arg |-> [t |-> t, buffer |-> buffer, size |-> size,
                          n |-> Len(m_results)]]
  /\ UNCHANGED <<lifeVars, threadVars, m_errorCode, m_parameters, history>>

SetParameterLength(index, length) ==
  /\ Usable
  /\ LET r == setParameterLength(m_parameters, index, length) IN
       /\ m_parameters' = r.m_parameters
       /\ outcome' = [op |-> "setParameterLength", result |-> r.result, ret |-> 0,
                      failed |-> FALSE, calls |-> 0, msg |-> <<>>, text |-> "",
                      inLoop |-> FALSE,
                      arg |-> [t |-> "", buffer |-> 0, size |-> length, n |-> index]]
       /\ history' = [history EXCEPT !.failure = @ \/ Threw(r.result)]
  /\ UNCHANGED <<lifeVars, threadVars, m_errorCode, m_results>>

\* ------------------------------------------------------- specifications
InitStmtVars ==
  /\ m_errorCode = 0
  /\ m_parameters = <<>>
  /\ m_results = <<>>
  /\ outcome = [op |-> "none", result |-> "none", ret |-> 0, failed |-> FALSE,
                calls |-> 0, msg |-> <<>>, text |-> "", inLoop |-> FALSE,
                arg |-> NoArg]
  /\ history = [lastNative |-> 0, bound |-> FALSE, failure |-> FALSE,
                loop |-> "none", rows |-> 0]

EmptyHeap == [lib |-> [l \in LibIds |-> NoLib],
              conn |-> [c \in ConnIds |-> NoConn],
              stmt |-> [s \in StmtIds |-> NoStmt]]

\* The state after construction: nothing acquired.
Init ==
  /\ m_instance = 0
  /\ lib = EmptyHeap.lib
  /\ conn = EmptyHeap.conn
  /\ stmt = EmptyHeap.stmt
  /\ created = NoCreated
  /\ pc = [t \in Threads |-> "idle"]
  /\ instance = [t \in Threads |-> 0]
  /\ InitStmtVars

\* One thread creating, copying and dropping the three kinds of reference.
Next ==
  \/ \E initRet \in {0, 1} : CreateOrGet(initRet)
  \/ \E l \in LibIds \cup {0}, handle \in {0, 1} : ConnectionCreate(l, handle)
  \/ \E c \in ConnIds, handle \in {0, 1} : StatementCreate(c, handle)
  \/ \E l \in LibIds : CopyLibraryRef(l)
  \/ \E c \in ConnIds : CopyConnectionRef(c)
  \/ \E s \in StmtIds : CopyStatementRef(s)
  \/ \E l \in LibIds : DropLibraryRef(l)
  \/ \E c \in ConnIds : DropConnectionRef(c)
  \/ \E s \in StmtIds : DropStatementRef(s)

Spec == Init /\ [][Next]_vars

\* Several threads inside createOrGet at once, and callers dropping what it returned.
NextConc ==
  \/ \E t \in Threads : LockStep(t)
  \/ \E t \in Threads, initRet \in {0, 1} : ConstructStep(t, initRet)
  \/ \E t \in Threads : PublishStep(t)
  \/ \E t \in Threads : ReturnStep(t)
  \/ \E l \in LibIds : DropLibraryRef(l)

SpecConc == Init /\ [][NextConc]_vars

\* The state after createOrGet(), MySQLConnection::create(library) and
\* MySQLPreparedStatement::create(conn) have all succeeded.
InitStmt ==
  LET r == createOrGet(EmptyHeap, 0, 0)
      H2 == CreateConnection(r.H, 1, r.ret, 1)
      H3 == CreateStatement(H2, 1, 1, 1)
  IN /\ m_instance = r.m_instance
     /\ lib = H3.lib
     /\ conn = H3.conn
     /\ stmt = H3.stmt
     /\ created = [op |-> "MySQLPreparedStatement::create", ret |-> 1,
                   wasLive |-> {r.ret}, inits |-> 0, dep |-> 1, kept |-> FALSE]
     /\ pc = [t \in Threads |-> "idle"]
     /\ instance = [t \in Threads |-> 0]
     /\ InitStmtVars

\* The forwarding operations of one connection and one statement.
NextStmt ==
  \/ \E ans \in ConnectAnswers : Connect(ans)
  \/ \E autoCommit \in BOOLEAN, ans \in BoolAnswers : SetAutoCommit(autoCommit, ans)
  \/ \E ans \in IntAnswers : Prepare(ans)
  \/ \E ans \in BoolAnswers : BindParameters(ans)
  \/ \E ans \in BoolAnswers : BindResults(ans)
  \/ \E ans \in IntAnswers : Execute(ans)
  \/ StartFetchLoop
  \/ \E ans \in FetchAnswers : Fetch(ans)
  \/ \E ans \in BoolAnswers : Stop(ans)
  \/ Len(m_parameters) < MaxDesc /\ AddParameter("int", 10, 0)
  \/ Len(m_results) < MaxDesc /\ AddResult("int", 20, 0)
  \/ \E index \in 0..MaxDesc : SetParameterLength(index, 3)

SpecStmt == InitStmt /\ [][NextStmt]_vars

\* The typed registration helpers of one statement.
NextBind ==
  \/ \E t \in CTypes, buffer \in Addrs, size \in Sizes :
       /\ Len(m_parameters) + Len(m_results) < MaxBind
       /\ t \notin Sized => size = 3
       /\ AddParameter(t, buffer, size)
  \/ \E t \in CTypes, buffer \in Addrs, size \in Sizes :
       /\ Len(m_parameters) + Len(m_results) < MaxBind
       /\ t \notin Sized => size = 3
       /\ AddResult(t, buffer, size)
  \/ \E index \in 0..MaxBind, length \in Sizes : SetParameterLength(index, length)

SpecBind == InitStmt /\ [][NextBind]_vars

\* ------------------------------------------------------------ the claims
\* Every caller-held reference has been dropped.
AllDropped ==
  /\ \A l \in LibIds : lib[l].user = 0
  /\ \A c \in ConnIds : conn[c].user = 0
  /\ \A s \in StmtIds : stmt[s].user = 0

\* An acquired handle is released exactly when its wrapper has no owner left,
\* and never more than once.
PairedLib(l) ==
  lib[l].native # "none" =>
    lib[l].released = IF lib[l].obj = "live" /\ LibStrong(Heap, l) > 0 THEN 0 ELSE 1
PairedConn(c) ==
  conn[c].native # "none" =>
    conn[c].released = IF conn[c].obj = "live" /\ ConnStrong(Heap, c) > 0 THEN 0 ELSE 1
PairedStmt(s) ==
  stmt[s].native # "none" =>
    stmt[s].released = IF stmt[s].obj = "live" /\ StmtStrong(Heap, s) > 0 THEN 0 ELSE 1

\* C1: every successful native acquisition (mysql_library_init, mysql_init,
\* mysql_stmt_init) is matched by exactly one native release, made when the last
\* shared reference to the owning wrapper goes and not before; once the callers
\* have dropped every reference no acquired handle is left unreleased.
C1_ExactlyOnce ==
  /\ \A l \in LibIds : PairedLib(l)
  /\ \A c \in ConnIds : PairedConn(c)
  /\ \A s \in StmtIds : PairedStmt(s)
  /\ AllDropped =>
       /\ \A l \in LibIds : lib[l].native # "none" => lib[l].released = 1
       /\ \A c \in ConnIds : conn[c].native # "none" => conn[c].released = 1
       /\ \A s \in StmtIds : stmt[s].native # "none" => stmt[s].released = 1

\* A statement, its connection and the library were acquired and all released.
C1_Witness ==
  /\ AllDropped
  /\ \E s \in StmtIds :
       /\ stmt[s].released = 1
       /\ conn[stmt[s].on].released = 1
       /\ conn[stmt[s].on].on # 0
       /\ lib[conn[stmt[s].on].on].released = 1

\* C2: mysql_close is never called on a connection while a statement created
\* on it still has an unclosed native handle, and mysql_library_end is never
\* called while a connection created with that library instance still has an
\* unclosed native handle, in whatever order the caller drops its references.
C2_ReleaseOrder ==
  /\ \A s \in StmtIds :
       /\ stmt[s].native # "orphaned"
       /\ stmt[s].native = "open" => conn[stmt[s].on].released = 0
  /\ \A c \in ConnIds : conn[c].on # 0 =>
       /\ conn[c].native # "orphaned"
       /\ conn[c].native = "open" => lib[conn[c].on].released = 0

\* The caller has dropped the library and the connection first: only the
\* statement is still held, and all three native handles are still open.
C2_Witness ==
  \E s \in StmtIds :
    /\ stmt[s].user > 0 /\ stmt[s].native = "open"
    /\ conn[stmt[s].on].user = 0 /\ conn[stmt[s].on].native = "open"
    /\ conn[stmt[s].on].on # 0
    /\ lib[conn[stmt[s].on].on].user = 0
    /\ lib[conn[stmt[s].on].on].native = "open"

\* At most one library instance is initialized and not yet deinitialized.
AtMostOneLive == Cardinality(LiveLibs) <= 1

\* createOrGet while an instance is live: that instance, and no native call.
ReusesLive ==
  (created.op = "createOrGet" /\ created.wasLive # {}) =>
    /\ created.ret \in created.wasLive
    /\ created.inits = 0

\* C3 as stated: at most one instance is live; createOrGet while one is live
\* returns it without calling mysql_library_init; createOrGet while none is
\* live calls mysql_library_init exactly once and returns a new instance.
C3_Original ==
  /\ AtMostOneLive
  /\ ReusesLive
  /\ (created.op = "createOrGet" /\ created.wasLive = {}) =>
       /\ created.inits = 1
       /\ created.ret # 0
       /\ LiveLibs = {created.ret}

\* C3 as amended: ... createOrGet while none is live calls mysql_library_init
\* exactly once and, when that call returns 0, returns a new instance, which is
\* then the live one; when it returns non-zero createOrGet throws and no
\* instance is live.
C3_AcquireOrReuse ==
  /\ AtMostOneLive
  /\ ReusesLive
  /\ (created.op = "createOrGet" /\ created.wasLive = {}) =>
       /\ created.inits = 1
       /\ created.ret # 0 =>
            /\ LiveLibs = {created.ret}
            /\ m_instance = created.ret
            /\ lib[created.ret].released = 0
       /\ created.ret = 0 => LiveLibs = {}

\* createOrGet made a second instance after the first was deinitialized.
C3_Witness ==
  /\ created.op = "createOrGet"
  /\ created.wasLive = {}
  /\ created.ret = 2
  /\ lib[1].released = 1

\* C8: a failed acquisition is reported, returns and registers no wrapper,
\* calls no native release for the handle that was not acquired, and gives
\* back the reference the failed wrapper took on its dependency, which is
\* still released exactly once when the callers' references are dropped.
C8_FailedAcquisition ==
  /\ (created.op # "none" /\ created.ret = 0) => created.kept
  /\ (created.op = "createOrGet" /\ created.ret = 0) => Lock(Heap, m_instance) = 0
  /\ \A l \in LibIds : lib[l].native = "none" => lib[l].released = 0
  /\ \A c \in ConnIds :
       /\ conn[c].native = "none" => conn[c].released = 0
       /\ conn[c].obj # "live" => conn[c].m_library = 0
  /\ \A s \in StmtIds :
       /\ stmt[s].native = "none" => stmt[s].released = 0
       /\ stmt[s].obj # "live" => stmt[s].m_conn = 0
  /\ AllDropped =>
       /\ \A l \in LibIds : lib[l].native # "none" => lib[l].released = 1
       /\ \A c \in ConnIds : conn[c].native # "none" => conn[c].released = 1

\* mysql_init failed in MySQLConnection::create on a library the caller still
\* holds: no connection object was left behind.
C8_Witness ==
  /\ created.op = "MySQLConnection::create"
  /\ created.ret = 0
  /\ created.dep # 0
  /\ lib[created.dep].user = 1
  /\ conn[1].obj = "unborn"

\* C10 as stated: however the threads' steps through createOrGet interleave,
\* mysql_library_init succeeds at most once while an instance is live: at
\* most one instance is live, and every caller holds that one.
C10_Claim ==
  /\ AtMostOneLive
  /\ \A t \in Threads : instance[t] # 0 => LiveLibs = {instance[t]}

\* The forwarding operations the error policy covers.
Forwarding == {"connect", "setAutoCommit", "prepare", "bindParameters",
               "bindResults", "execute", "fetch", "stop"}

\* The message carries the text the native library reported.
Carries(msg, text) == \E i \in 1..Len(msg) : msg[i] = text

\* C4 as stated: a failing return of the wrapped native call becomes a thrown
\* exception that carries the native library's own error text, after exactly
\* one native call (no retry).
C4_Claim ==
  (outcome.op \in Forwarding /\ outcome.failed) =>
    /\ outcome.result = "runtime_error"
    /\ outcome.calls = 1
    /\ Carries(outcome.msg, outcome.text)

\* The native tag the claim gives each C type.
NativeTag(t) ==
  CASE t = "char" -> "MYSQL_TYPE_TINY"
    [] t = "short" -> "MYSQL_TYPE_SHORT"
    [] t = "int" -> "MYSQL_TYPE_LONG"
    [] t = "long long" -> "MYSQL_TYPE_LONGLONG"
    [] t = "float" -> "MYSQL_TYPE_FLOAT"
    [] t = "double" -> "MYSQL_TYPE_DOUBLE"
    [] t = "char*" -> "MYSQL_TYPE_STRING"
    [] t = "void*" -> "MYSQL_TYPE_BLOB"

\* The descriptor the claim expects for the last typed helper call.
Expected(arg) ==
  [buffer_type |-> NativeTag(arg.t), buffer |-> arg.buffer,
   buffer_length |-> IF arg.t \in Sized THEN arg.size ELSE SizeOf(arg.t)]

\* C5 as stated: each typed addParameter / addResult overload appends exactly
\* one descriptor at the end of its sequence, with the native tag of the C
\* type, the argument's address and the argument's size.
C5_Claim ==
  /\ outcome.op = "addParameter" =>
       /\ Len(m_parameters) = outcome.arg.n + 1
       /\ m_parameters[Len(m_parameters)] = Expected(outcome.arg)
  /\ outcome.op = "addResult" =>
       /\ Len(m_results) = outcome.arg.n + 1
       /\ m_results[Len(m_results)] = Expected(outcome.arg)

\* A caller loop ends exactly on the first native fetch result that is not 0.
LoopEndsOnFirstStop ==
  /\ (outcome.op = "fetch" /\ outcome.inLoop) =>
       (history.loop = "ended" <=> outcome.ret # 0)
  /\ (outcome.op = "fetch" /\ history.loop = "running") => outcome.ret = 0

\* C6 as stated: in a sequence accepted without a reported failure, the
\* native execute call is reached only after a successful bindParameters has
\* bound the registered parameters; and the fetch loop ends on the first
\* no-more-rows or error result.
C6_Original ==
  /\ (outcome.op = "execute" /\ outcome.calls = 1 /\ ~history.failure
        /\ m_parameters # <<>>) => history.bound
  /\ LoopEndsOnFirstStop

\* C6 as amended: execute forwards to the native execute call exactly once
\* whether or not bindParameters has succeeded, and succeeds exactly when that
\* call returns 0 (binding before execute is the caller's obligation, the
\* wrapper does not check it); and the fetch loop ends on the first
\* no-more-rows or error result.
C6_CallOrder ==
  /\ outcome.op = "execute" =>
       /\ outcome.calls = 1
       /\ outcome.result = "ok" <=> outcome.ret = 0
  /\ LoopEndsOnFirstStop

\* A caller loop fetched rows and then ended on an error result of the native fetch.
C6_Witness ==
  /\ outcome.op = "fetch" /\ outcome.inLoop
  /\ outcome.ret = MYSQL_DATA_TRUNCATED
  /\ history.loop = "ended"
  /\ history.rows = MaxFetch

\* C7: fetch returns true exactly when mysql_stmt_fetch returns 0, false
\* exactly when it returns MYSQL_NO_DATA, and throws for every other value.
C7_FetchTriState ==
  outcome.op = "fetch" =>
    /\ outcome.calls = 1
    /\ outcome.result \in {"true", "false", "runtime_error"}
    /\ outcome.result = "true" <=> outcome.ret = 0
    /\ outcome.result = "false" <=> outcome.ret = MYSQL_NO_DATA
    /\ outcome.result = "runtime_error" <=> outcome.ret \notin {0, MYSQL_NO_DATA}

\* fetch threw on a data-truncated result.
C7_Witness ==
  /\ outcome.op = "fetch"
  /\ outcome.ret = MYSQL_DATA_TRUNCATED
  /\ outcome.result = "runtime_error"

\* C9: getErrorCode() is the status of the most recent native call among
\* mysql_stmt_prepare, mysql_stmt_bind_param, mysql_stmt_bind_result and
\* mysql_stmt_execute that was made (0 if none); the helpers, fetch, stop and
\* a bind rejected for an empty sequence leave it unchanged.
C9_ErrorCode == m_errorCode = history.lastNative

\* A bind rejected for an empty sequence left a non-zero code of an earlier call.
C9_Witness ==
  /\ outcome.op = "bindResults"
  /\ outcome.result = "logic_error"
  /\ m_errorCode = 2
====
